---- MODULE Spec2Model ----
(***************************************************************************)
(* The PSET v2 output record codec of ts_src/psetv2/output.ts:             *)
(* PsetOutput.fromBuffer (decode loop), PsetOutput.sanityCheck (blinding   *)
(* invariants) and PsetOutput.toBuffer / getKeyPairs (encoder).            *)
(*                                                                         *)
(* A Buffer is a sequence of bytes (0..255).  A JavaScript value that may  *)
(* be undefined is a sequence of length at most one: None is undefined,    *)
(* Some(v) is the value v.  So an unset field (None) and a field set to a  *)
(* zero-length Buffer (Some(<<>>)) are different values, as in the code.   *)
(***************************************************************************)
EXTENDS Integers, Sequences, FiniteSets, TLC

VARIABLES rec, r, output, kp, status, err, n, seen

vars == <<rec, r, output, kp, status, err, n, seen>>

-----------------------------------------------------------------------------
(* Bounds of the model                                                     *)

\* pairs read from an arbitrary stream before the terminator
MaxPairs == 3
\* pairs read from a stream over the blinding fields before the terminator
MaxBlindPairs == 7

-----------------------------------------------------------------------------
(* Field registry (fields.ts) and magic prefix (pset.ts)                   *)

REDEEM_SCRIPT == 0
WITNESS_SCRIPT == 1
BIP32_DERIVATION == 2
AMOUNT == 3
SCRIPT == 4
TAP_INTERNAL_KEY == 5
TAP_TREE == 6
TAP_BIP32_DERIVATION == 7
PROPRIETARY == 252

VALUE_COMMITMENT == 1
ASSET == 2
ASSET_COMMITMENT == 3
VALUE_RANGEPROOF == 4
ASSET_SURJECTION_PROOF == 5
BLINDING_PUBKEY == 6
ECDH_PUBKEY == 7
BLINDER_INDEX == 8
BLIND_VALUE_PROOF == 9
BLIND_ASSET_PROOF == 10

magicPrefix == <<112, 115, 101, 116>>

OutputTypeCodes ==
  {REDEEM_SCRIPT, WITNESS_SCRIPT, BIP32_DERIVATION, AMOUNT, SCRIPT,
   TAP_INTERNAL_KEY, TAP_TREE, TAP_BIP32_DERIVATION, PROPRIETARY}

NamedProprietaryTypes ==
  {VALUE_COMMITMENT, ASSET, ASSET_COMMITMENT, VALUE_RANGEPROOF,
   ASSET_SURJECTION_PROOF, BLINDING_PUBKEY, ECDH_PUBKEY, BLINDER_INDEX,
   BLIND_VALUE_PROOF, BLIND_ASSET_PROOF}

-----------------------------------------------------------------------------
(* Fixed sizes checked by fromBuffer                                       *)

PubkeyLen == 33
CommitmentLen == 33
AssetLen == 32
TapInternalKeyLen == 32
LeafHashLen == 32
AmountLen == 8
BlinderIndexLen == 4

-----------------------------------------------------------------------------
(* JavaScript values                                                       *)

None == <<>>
Some(v) == <<v>>

\* Buffer.slice(start, end): both ends are clamped to the buffer, never an error
Slice(buf, start, end) ==
  LET s == IF start > Len(buf) THEN Len(buf) ELSE start
      e == IF end > Len(buf) THEN Len(buf) ELSE end
  IN  IF e <= s THEN <<>> ELSE SubSeq(buf, s + 1, e)

\* Buffer.concat
RECURSIVE Concat(_)
Concat(bufs) ==
  IF bufs = <<>> THEN <<>> ELSE Head(bufs) \o Concat(Tail(bufs))

\* `x && x.length > 0' used as a condition
IsSet(x) == x # None /\ Len(x[1]) > 0

\* the value of `x && x.length > 0': undefined when x is, else a boolean
AndLength(x) ==
  IF x = None THEN "undefined" ELSE IF Len(x[1]) > 0 THEN "true" ELSE "false"

\* little-endian bytes of an unsigned integer of w bytes
RECURSIVE WriteLE(_, _)
WriteLE(v, w) ==
  IF w = 0 THEN <<>> ELSE <<v % 256>> \o WriteLE(v \div 256, w - 1)

RECURSIVE ReadLE(_)
ReadLE(buf) ==
  IF buf = <<>> THEN 0 ELSE Head(buf) + 256 * ReadLE(Tail(buf))

writeUInt64LE(v) == WriteLE(v, 8)
readUInt64LE(buf, offset) == ReadLE(SubSeq(buf, offset + 1, offset + 8))

-----------------------------------------------------------------------------
(* varuint (varuint-bitcoin): -1 stands for the RangeError of a read past  *)
(* the end of the buffer                                                   *)

VaruintEncodingLength(v) ==
  IF v < 253 THEN 1 ELSE IF v <= 65535 THEN 3 ELSE 5

VaruintEncode(v) ==
  IF v < 253 THEN <<v>>
  ELSE IF v <= 65535 THEN <<253>> \o WriteLE(v, 2)
  ELSE <<254>> \o WriteLE(v, 4)

VaruintDecode(buf, offset) ==
  IF offset + 1 > Len(buf) THEN -1
  ELSE LET first == buf[offset + 1]
           width == IF first < 253 THEN 0
                    ELSE IF first = 253 THEN 2
                    ELSE IF first = 254 THEN 4 ELSE 8
       IN  IF width = 0 THEN first
           ELSE IF offset + 1 + width > Len(buf) THEN -1
           ELSE ReadLE(SubSeq(buf, offset + 2, offset + 1 + width))

-----------------------------------------------------------------------------
(* Key pair wire codec (key_pair.ts)                                       *)

Key(keyType, keyData) == [keyType |-> keyType, keyData |-> keyData]
KeyPair(key, value) == [key |-> key, value |-> value]
NoKeyPair == KeyPair(Key(-1, <<>>), <<>>)

\* KeyPair.toBuffer: varint(key length) keyType keyData varint(value length) value
KeyPairToBuffer(p) ==
  VaruintEncode(1 + Len(p.key.keyData)) \o <<p.key.keyType>> \o p.key.keyData
    \o VaruintEncode(Len(p.value)) \o p.value

\* KeyPair.fromBuffer(r): kind is "pair", "empty" (ErrEmptyKey) or "error"
KeyPairFromBuffer(rd) ==
  LET buf == rd.buffer
      keyLen == VaruintDecode(buf, rd.offset)
      o1 == rd.offset + VaruintEncodingLength(keyLen)
      valLen == VaruintDecode(buf, o1 + keyLen)
      o2 == o1 + keyLen + VaruintEncodingLength(valLen)
  IN  IF keyLen = -1 THEN [kind |-> "error", kp |-> NoKeyPair, offset |-> rd.offset]
      ELSE IF keyLen = 0 THEN [kind |-> "empty", kp |-> NoKeyPair, offset |-> o1]
      ELSE IF o1 + keyLen > Len(buf) \/ valLen = -1 \/ o2 + valLen > Len(buf)
        THEN [kind |-> "error", kp |-> NoKeyPair, offset |-> rd.offset]
      ELSE [kind |-> "pair",
            kp |-> KeyPair(Key(buf[o1 + 1], SubSeq(buf, o1 + 2, o1 + keyLen)),
                           SubSeq(buf, o2 + 1, o2 + valLen)),
            offset |-> o2 + valLen]

-----------------------------------------------------------------------------
(* BIP32 derivation codec (bip32.ts): fingerprint (4 bytes) then one       *)
(* 4-byte little-endian index per path element                             *)

RECURSIVE EncodePath(_)
EncodePath(path) ==
  IF path = <<>> THEN <<>> ELSE WriteLE(Head(path), 4) \o EncodePath(Tail(path))

RECURSIVE DecodePath(_)
DecodePath(buf) ==
  IF buf = <<>> THEN <<>>
  ELSE <<ReadLE(SubSeq(buf, 1, 4))>> \o DecodePath(SubSeq(buf, 5, Len(buf)))

encodeBIP32Derivation(masterFingerprint, path) ==
  masterFingerprint \o EncodePath(path)

\* ok is FALSE where the codec throws on a malformed value
decodeBip32Derivation(buf) ==
  IF Len(buf) < 4 \/ Len(buf) % 4 # 0
    THEN [ok |-> FALSE, masterFingerprint |-> <<>>, path |-> <<>>]
    ELSE [ok |-> TRUE, masterFingerprint |-> SubSeq(buf, 1, 4),
          path |-> DecodePath(SubSeq(buf, 5, Len(buf)))]

-----------------------------------------------------------------------------
(* Proprietary envelope (proprietary_data.ts):                             *)
(* varint(identifier length) identifier subType keyData                    *)

ProprietaryData(identifier, subType, keyData, value) ==
  [identifier |-> identifier, subType |-> subType, keyData |-> keyData,
   value |-> value]

ProprietaryKey(identifier, subType, keyData) ==
  VaruintEncode(Len(identifier)) \o identifier \o <<subType>> \o keyData

\* ProprietaryData.proprietaryKey(subType, keyData): always the magic prefix
proprietaryKey(subType, keyData) == ProprietaryKey(magicPrefix, subType, keyData)

\* ProprietaryData.fromKeyPair(kp); ok is FALSE where the key data is too short
ProprietaryDataFromKeyPair(p) ==
  LET kd == p.key.keyData
      idLen == VaruintDecode(kd, 0)
      o1 == VaruintEncodingLength(idLen)
  IN  IF idLen = -1 \/ o1 + idLen + 1 > Len(kd)
        THEN [ok |-> FALSE, data |-> ProprietaryData(<<>>, 0, <<>>, <<>>)]
        ELSE [ok |-> TRUE,
              data |-> ProprietaryData(SubSeq(kd, o1 + 1, o1 + idLen),
                                       kd[o1 + idLen + 1],
                                       SubSeq(kd, o1 + idLen + 2, Len(kd)),
                                       p.value)]

-----------------------------------------------------------------------------
(* The output record                                                       *)

\* new PsetOutput(): value 0, asset an empty Buffer, every other field undefined
NewPsetOutput ==
  [redeemScript |-> None, witnessScript |-> None, bip32Derivation |-> None,
   value |-> 0, script |-> None, tapBip32Derivation |-> None,
   tapTree |-> None, tapInternalKey |-> None, valueCommitment |-> None,
   asset |-> Some(<<>>), assetCommitment |-> None, valueRangeproof |-> None,
   assetSurjectionProof |-> None, blindingPubkey |-> None,
   ecdhPubkey |-> None, blinderIndex |-> None, blindValueProof |-> None,
   blindAssetProof |-> None, proprietaryData |-> None, unknowns |-> None]

\* a list field as an array: `x || []'
OrEmpty(x) == IF x = None THEN <<>> ELSE x[1]

HasPubkey(list, pubkey) == \E i \in 1..Len(list) : list[i].pubkey = pubkey

-----------------------------------------------------------------------------
(* sanityCheck and the classification helpers                              *)

isPartiallyBlinded(o) ==
  \/ IsSet(o.valueCommitment)
  \/ IsSet(o.assetCommitment)
  \/ IsSet(o.valueRangeproof)
  \/ IsSet(o.assetSurjectionProof)
  \/ IsSet(o.ecdhPubkey)

\* isFullyBlinded with the ecdhPubkey conjunct forgotten
isFullyBlindedNoEcdh(o) ==
  /\ IsSet(o.valueCommitment)
  /\ IsSet(o.assetCommitment)
  /\ IsSet(o.valueRangeproof)
  /\ IsSet(o.assetSurjectionProof)

isFullyBlinded(o) ==
  /\ IsSet(o.valueCommitment)
  /\ IsSet(o.assetCommitment)
  /\ IsSet(o.valueRangeproof)
  /\ IsSet(o.assetSurjectionProof)
  /\ IsSet(o.ecdhPubkey)

\* `this.blinderIndex! > 0': false when the index is undefined
BlinderIndexPositive(o) == o.blinderIndex # None /\ o.blinderIndex[1] > 0

ErrValuePairing == "Missing output value commitment or blind proof"
ErrMissingAsset == "Missing output asset"
ErrAssetPairing == "Missing output asset commitment or blind proof"
ErrPartiallyBlinded ==
  "Output is partially blinded while it must be either unblinded or fully blinded"
ErrBlinderIndex == "Blinder index must be unset for fully blinded output"

\* the `!==' of sanityCheck compares the values of `x && x.length > 0', so
\* undefined differs from false
ValuePairingBroken(o) ==
  o.value > 0 /\ AndLength(o.valueCommitment) # AndLength(o.blindValueProof)

AssetPairingBroken(o) ==
  IsSet(o.asset) /\ AndLength(o.assetCommitment) # AndLength(o.blindAssetProof)

\* the message sanityCheck throws, "" when it returns
sanityCheck(o) ==
  IF ValuePairingBroken(o) THEN ErrValuePairing
  ELSE IF ~IsSet(o.assetCommitment) /\ ~IsSet(o.asset) THEN ErrMissingAsset
  ELSE IF AssetPairingBroken(o) THEN ErrAssetPairing
  ELSE IF isPartiallyBlinded(o) /\ ~isFullyBlinded(o) THEN ErrPartiallyBlinded
  ELSE IF isFullyBlinded(o) /\ BlinderIndexPositive(o) THEN ErrBlinderIndex
  ELSE ""

-----------------------------------------------------------------------------
(* fromBuffer: one case of the switch per operator.  Each yields the       *)
(* record after the case and the message thrown ("" when none).            *)

Ok(o) == [output |-> o, err |-> ""]
Throw(o, msg) == [output |-> o, err |-> msg]
Duplicated(name) == "Duplicated output " \o name

DuplicateErrors ==
  {Duplicated(nm) : nm \in
     {"redeem script", "witness script", "bip32 derivation", "value", "script",
      "taproot bip32 derivation", "taproot tree", "taproot internal key",
      "value commitment", "asset", "asset commitment", "value range proof",
      "asset surjection proof", "blinding pubkey", "ecdh pubkey",
      "blinder index", "blind value proof", "blind asset proof"}}

LengthErrors ==
  {"Invalid output bip32 pubkey length", "Invalid output amount length",
   "Invalid output bip32 derivation pubkey length",
   "Invalid output taproot internal key length",
   "Invalid output value commitment length", "Invalid output asset length",
   "Invalid output asset commitment length",
   "Invalid output blinding pubkey length",
   "Invalid output ecdh pubkey length", "Invalid output blinder index length"}

ErrMalformed == "Malformed buffer"

\* an opaque byte field: duplicate check on `field && field.length > 0',
\* then the optional length check, then the assignment
CaseBytes(o, p, field, name, len, lenErr) ==
  IF IsSet(o[field]) THEN Throw(o, Duplicated(name))
  ELSE IF len >= 0 /\ Len(p.value) # len THEN Throw(o, lenErr)
  ELSE Ok([o EXCEPT ![field] = Some(p.value)])

CaseRedeemScript(o, p) == CaseBytes(o, p, "redeemScript", "redeem script", -1, "")
CaseWitnessScript(o, p) ==
  CaseBytes(o, p, "witnessScript", "witness script", -1, "")
CaseScript(o, p) == CaseBytes(o, p, "script", "script", -1, "")
CaseTapInternalKey(o, p) ==
  CaseBytes(o, p, "tapInternalKey", "taproot internal key", TapInternalKeyLen,
            "Invalid output taproot internal key length")

CaseBip32Derivation(o, p) ==
  LET pubkey == p.key.keyData
      o1 == IF o.bip32Derivation = None
              THEN [o EXCEPT !.bip32Derivation = Some(<<>>)] ELSE o
      d == decodeBip32Derivation(p.value)
  IN  IF Len(pubkey) # PubkeyLen THEN Throw(o, "Invalid output bip32 pubkey length")
      ELSE IF HasPubkey(o1.bip32Derivation[1], pubkey)
        THEN Throw(o1, Duplicated("bip32 derivation"))
      ELSE IF ~d.ok THEN Throw(o1, ErrMalformed)
      ELSE Ok([o1 EXCEPT !.bip32Derivation =
                 Some(Append(o1.bip32Derivation[1],
                             [pubkey |-> pubkey,
                              masterFingerprint |-> d.masterFingerprint,
                              path |-> d.path]))])

\* the AMOUNT case with the duplicate guard written `>= 0'
CaseAmountGuardAtZero(o, p) ==
  IF o.value >= 0 THEN Throw(o, Duplicated("value"))
  ELSE IF Len(p.value) # AmountLen THEN Throw(o, "Invalid output amount length")
  ELSE Ok([o EXCEPT !.value = readUInt64LE(p.value, 0)])

CaseAmount(o, p) ==
  IF o.value > 0 THEN Throw(o, Duplicated("value"))
  ELSE IF Len(p.value) # AmountLen THEN Throw(o, "Invalid output amount length")
  ELSE Ok([o EXCEPT !.value = readUInt64LE(p.value, 0)])

\* the leaf hashes sliced from offset 0, the count's own bytes not skipped
LeafHashesFromZero(value, nHashesLen, nHashes) ==
  [i \in 1..nHashes |-> Slice(value, (i - 1) * LeafHashLen, i * LeafHashLen)]

\* leafHashes[i] = kp.value.slice(_ofs, _ofs + 32): the slices are clamped
LeafHashes(value, nHashesLen, nHashes) ==
  [i \in 1..nHashes |->
     Slice(value, nHashesLen + (i - 1) * LeafHashLen, nHashesLen + i * LeafHashLen)]

CaseTapBip32Derivation(o, p) ==
  LET tapBip32Pubkey == p.key.keyData
      o1 == IF o.tapBip32Derivation = None
              THEN [o EXCEPT !.tapBip32Derivation = Some(<<>>)] ELSE o
      nHashes == VaruintDecode(p.value, 0)
      nHashesLen == VaruintEncodingLength(nHashes)
      bip32Deriv ==
        decodeBip32Derivation(
          Slice(p.value, nHashesLen + nHashes * LeafHashLen, Len(p.value)))
  IN  IF Len(tapBip32Pubkey) # PubkeyLen
        THEN Throw(o, "Invalid output bip32 derivation pubkey length")
      ELSE IF HasPubkey(o1.tapBip32Derivation[1], tapBip32Pubkey)
        THEN Throw(o1, Duplicated("taproot bip32 derivation"))
      ELSE IF nHashes = -1 \/ ~bip32Deriv.ok THEN Throw(o1, ErrMalformed)
      ELSE Ok([o1 EXCEPT !.tapBip32Derivation =
                 Some(Append(o1.tapBip32Derivation[1],
                             [pubkey |-> tapBip32Pubkey,
                              masterFingerprint |-> bip32Deriv.masterFingerprint,
                              path |-> bip32Deriv.path,
                              leafHashes |->
                                LeafHashes(p.value, nHashesLen, nHashes)]))])

\* the while loop of the TAP_TREE case from _offset on; ok is FALSE where
\* varuint.decode reads past the end.  value[_offset++] past the end is
\* undefined, not an error, and the script slice is clamped.
RECURSIVE TapTreeLeaves(_, _)
TapTreeLeaves(value, offset) ==
  IF offset >= Len(value) THEN [ok |-> TRUE, leaves |-> <<>>]
  ELSE LET depth == value[offset + 1]
           scriptLen == VaruintDecode(value, offset + 2)
           start == offset + 2 + VaruintEncodingLength(scriptLen)
       IN  IF scriptLen = -1 THEN [ok |-> FALSE, leaves |-> <<>>]
           ELSE LET rest == TapTreeLeaves(value, start + scriptLen)
                    leaf == [depth |-> depth, leafVersion |-> value[offset + 2],
                             script |-> Slice(value, start, start + scriptLen)]
                IN  [ok |-> rest.ok, leaves |-> <<leaf>> \o rest.leaves]

CaseTapTree(o, p) ==
  LET t == TapTreeLeaves(p.value, 0)
  IN  IF o.tapTree # None THEN Throw(o, Duplicated("taproot tree"))
      ELSE IF ~t.ok THEN Throw(o, ErrMalformed)
      ELSE Ok([o EXCEPT !.tapTree = Some([leaves |-> t.leaves])])

CaseBlinderIndex(o, p) ==
  IF o.blinderIndex # None THEN Throw(o, Duplicated("blinder index"))
  ELSE IF Len(p.value) # BlinderIndexLen
    THEN Throw(o, "Invalid output blinder index length")
  ELSE Ok([o EXCEPT !.blinderIndex = Some(ReadLE(p.value))])

\* the default case of the inner switch
CaseProprietaryDefault(o, data) ==
  Ok([o EXCEPT !.proprietaryData = Some(Append(OrEmpty(o.proprietaryData), data))])

\* an identifier other than the magic prefix: the `if' has no else branch,
\* the pair is left out of the record
CaseForeignIdentifier(o, data) == Ok(o)

CaseProprietary(o, p) ==
  LET d == ProprietaryDataFromKeyPair(p)
      data == d.data
      st == data.subType
  IN  IF ~d.ok THEN Throw(o, ErrMalformed)
      ELSE IF data.identifier # magicPrefix THEN CaseForeignIdentifier(o, data)
      ELSE IF st = VALUE_COMMITMENT
        THEN CaseBytes(o, p, "valueCommitment", "value commitment", CommitmentLen,
                       "Invalid output value commitment length")
      ELSE IF st = ASSET
        THEN CaseBytes(o, p, "asset", "asset", AssetLen,
                       "Invalid output asset length")
      ELSE IF st = ASSET_COMMITMENT
        THEN CaseBytes(o, p, "assetCommitment", "asset commitment", CommitmentLen,
                       "Invalid output asset commitment length")
      ELSE IF st = VALUE_RANGEPROOF
        THEN CaseBytes(o, p, "valueRangeproof", "value range proof", -1, "")
      ELSE IF st = ASSET_SURJECTION_PROOF
        THEN CaseBytes(o, p, "assetSurjectionProof", "asset surjection proof", -1, "")
      ELSE IF st = BLINDING_PUBKEY
        THEN CaseBytes(o, p, "blindingPubkey", "blinding pubkey", PubkeyLen,
                       "Invalid output blinding pubkey length")
      ELSE IF st = ECDH_PUBKEY
        THEN CaseBytes(o, p, "ecdhPubkey", "ecdh pubkey", PubkeyLen,
                       "Invalid output ecdh pubkey length")
      ELSE IF st = BLINDER_INDEX THEN CaseBlinderIndex(o, p)
      ELSE IF st = BLIND_VALUE_PROOF
        THEN CaseBytes(o, p, "blindValueProof", "blind value proof", -1, "")
      ELSE IF st = BLIND_ASSET_PROOF
        THEN CaseBytes(o, p, "blindAssetProof", "blind asset proof", -1, "")
      ELSE CaseProprietaryDefault(o, data)

\* the default case putting the pair at the front of unknowns
CaseUnknownUnshift(o, p) ==
  Ok([o EXCEPT !.unknowns = Some(<<p>> \o OrEmpty(o.unknowns))])

\* the default case of the outer switch
CaseUnknown(o, p) ==
  Ok([o EXCEPT !.unknowns = Some(Append(OrEmpty(o.unknowns), p))])

\* switch (kp.key.keyType)
Dispatch(o, p) ==
  LET t == p.key.keyType
  IN  IF t = REDEEM_SCRIPT THEN CaseRedeemScript(o, p)
      ELSE IF t = WITNESS_SCRIPT THEN CaseWitnessScript(o, p)
      ELSE IF t = BIP32_DERIVATION THEN CaseBip32Derivation(o, p)
      ELSE IF t = AMOUNT THEN CaseAmount(o, p)
      ELSE IF t = SCRIPT THEN CaseScript(o, p)
      ELSE IF t = TAP_BIP32_DERIVATION THEN CaseTapBip32Derivation(o, p)
      ELSE IF t = TAP_TREE THEN CaseTapTree(o, p)
      ELSE IF t = TAP_INTERNAL_KEY THEN CaseTapInternalKey(o, p)
      ELSE IF t = PROPRIETARY THEN CaseProprietary(o, p)
      ELSE CaseUnknown(o, p)

-----------------------------------------------------------------------------
(* getKeyPairs and toBuffer                                                *)

OptPair(field, key) == IF IsSet(field) THEN <<KeyPair(key, field[1])>> ELSE <<>>

PropKey(subType) == Key(PROPRIETARY, proprietaryKey(subType, <<>>))

Bip32Pairs(list) ==
  [i \in 1..Len(list) |->
     KeyPair(Key(BIP32_DERIVATION, list[i].pubkey),
             encodeBIP32Derivation(list[i].masterFingerprint, list[i].path))]

TapBip32Pairs(list) ==
  [i \in 1..Len(list) |->
     KeyPair(Key(TAP_BIP32_DERIVATION, list[i].pubkey),
             VaruintEncode(Len(list[i].leafHashes))
               \o Concat(list[i].leafHashes)
               \o encodeBIP32Derivation(list[i].masterFingerprint, list[i].path))]

TapTreeValue(leaves) ==
  Concat([i \in 1..Len(leaves) |->
            <<leaves[i].depth, leaves[i].leafVersion>>
              \o VaruintEncode(Len(leaves[i].script)) \o leaves[i].script])

TapTreePair(t) ==
  IF t = None THEN <<>>
  ELSE <<KeyPair(Key(TAP_TREE, <<>>), TapTreeValue(t[1].leaves))>>

ProprietaryPairs(list) ==
  [i \in 1..Len(list) |->
     KeyPair(Key(PROPRIETARY, proprietaryKey(list[i].subType, list[i].keyData)),
             list[i].value)]

\* `keyPairs.concat(this.unknowns || [])' builds a new array and leaves
\* keyPairs as it was; the new array is not used
AfterUnknownsConcat(keyPairs, unknowns) ==
  LET discarded == keyPairs \o unknowns IN keyPairs

getKeyPairs(o) ==
  LET keyPairs ==
        OptPair(o.redeemScript, Key(REDEEM_SCRIPT, <<>>))
        \o OptPair(o.witnessScript, Key(WITNESS_SCRIPT, <<>>))
        \o Bip32Pairs(OrEmpty(o.bip32Derivation))
        \o TapBip32Pairs(OrEmpty(o.tapBip32Derivation))
        \o TapTreePair(o.tapTree)
        \o OptPair(o.tapInternalKey, Key(TAP_INTERNAL_KEY, <<>>))
        \o <<KeyPair(Key(AMOUNT, <<>>), writeUInt64LE(o.value))>>
        \o <<KeyPair(Key(SCRIPT, <<>>), OrEmpty(o.script))>>
        \o OptPair(o.valueCommitment, PropKey(VALUE_COMMITMENT))
        \o OptPair(o.assetCommitment, PropKey(ASSET_COMMITMENT))
        \o OptPair(o.asset, PropKey(ASSET))
        \o OptPair(o.valueRangeproof, PropKey(VALUE_RANGEPROOF))
        \o OptPair(o.assetSurjectionProof, PropKey(ASSET_SURJECTION_PROOF))
        \o OptPair(o.blindingPubkey, PropKey(BLINDING_PUBKEY))
        \o OptPair(o.ecdhPubkey, PropKey(ECDH_PUBKEY))
        \o <<KeyPair(PropKey(BLINDER_INDEX),
                     WriteLE(IF BlinderIndexPositive(o) THEN o.blinderIndex[1] ELSE 0, 4))>>
        \o OptPair(o.blindValueProof, PropKey(BLIND_VALUE_PROOF))
        \o OptPair(o.blindAssetProof, PropKey(BLIND_ASSET_PROOF))
        \o ProprietaryPairs(OrEmpty(o.proprietaryData))
  IN  AfterUnknownsConcat(keyPairs, OrEmpty(o.unknowns))

toBuffer(o) ==
  LET keyPairs == getKeyPairs(o)
  IN  Concat([i \in 1..Len(keyPairs) |-> KeyPairToBuffer(keyPairs[i])])

-----------------------------------------------------------------------------
(* The decode loop as a state machine                                      *)
(*   rec     the record handed to toBuffer (encode-then-decode runs)       *)
(*   r       the BufferReader: buffer and offset                           *)
(*   output  the record fromBuffer is building                             *)
(*   kp      the last key pair read                                        *)
(*   status  "built" (before toBuffer), "reading" (in the loop),           *)
(*           "returned" or "threw" (fromBuffer is over)                    *)
(*   err     the message thrown                                            *)
(*   n       number of key pairs read                                      *)
(*   seen    the named fields the stream has carried so far                *)

Reader(buffer) == [buffer |-> buffer, offset |-> 0]
Terminator == <<0>>

\* the named field a key pair carries: <<type, sub-type, public key>>;
\* <<>> for a pair that carries none (unknown type, unnamed proprietary)
FieldOf(p) ==
  LET t == p.key.keyType
      d == ProprietaryDataFromKeyPair(p)
  IN  IF t \in {BIP32_DERIVATION, TAP_BIP32_DERIVATION} THEN <<t, -1, p.key.keyData>>
      ELSE IF t \in OutputTypeCodes \ {PROPRIETARY} THEN <<t, -1, <<>>>>
      ELSE IF t = PROPRIETARY /\ d.ok /\ d.data.identifier = magicPrefix
              /\ d.data.subType \in NamedProprietaryTypes
        THEN <<t, d.data.subType, <<>>>>
      ELSE <<>>

\* one iteration of the while (true) loop of fromBuffer on reader rd
Iterate(rd) ==
  LET res == KeyPairFromBuffer(rd)
      d == Dispatch(output, res.kp)
      e == sanityCheck(output)
  IN  /\ status = "reading"
      /\ r' = [rd EXCEPT !.offset = res.offset]
      /\ rec' = rec
      /\ IF res.kind = "pair"
           THEN /\ kp' = res.kp
                /\ output' = d.output
                /\ err' = d.err
                /\ status' = IF d.err = "" THEN "reading" ELSE "threw"
                /\ n' = n + 1
                /\ seen' = seen \cup ({FieldOf(res.kp)} \ {<<>>})
         ELSE IF res.kind = "empty"
           THEN /\ err' = e
                /\ status' = IF e = "" THEN "returned" ELSE "threw"
                /\ UNCHANGED <<kp, output, n, seen>>
         ELSE /\ err' = ErrMalformed
              /\ status' = "threw"
              /\ UNCHANGED <<kp, output, n, seen>>

-----------------------------------------------------------------------------
(* Input key pairs                                                         *)

Fill(len, b) == [i \in 1..len |-> b]

PubA == <<2>> \o Fill(PubkeyLen - 1, 170)
Asset1 == Fill(AssetLen - 1, 0) \o <<1>>
Commit(b) == <<8>> \o Fill(CommitmentLen - 1, b)
Deriv1 == encodeBIP32Derivation(<<1, 2, 3, 4>>, <<44, 0>>)

Plain(t, value) == KeyPair(Key(t, <<>>), value)
Prop(subType, value) == KeyPair(PropKey(subType), value)

\* two leaves: (depth 1, version 0xc0, 3 bytes) and (depth 1, version 0xc0, 5 bytes)
Leaf(i) == [depth |-> 1, leafVersion |-> 192, script |-> Fill(2 * i + 1, 80 + i)]
TwoLeaves == TapTreeValue(<<Leaf(1), Leaf(2)>>)

ForeignPair ==
  KeyPair(Key(PROPRIETARY, ProprietaryKey(<<120, 121>>, VALUE_COMMITMENT, <<>>)), <<7>>)
UnnamedPair ==
  KeyPair(Key(PROPRIETARY, proprietaryKey(127, <<1>>)), <<8>>)
Unknown1 == KeyPair(Key(153, <<1>>), <<1, 2>>)
Unknown2 == KeyPair(Key(154, <<>>), <<>>)

InputPairs ==
  { Plain(REDEEM_SCRIPT, <<>>), Plain(REDEEM_SCRIPT, <<81>>),
    Plain(WITNESS_SCRIPT, <<82>>),
    Plain(SCRIPT, <<>>), Plain(SCRIPT, <<106>>),
    KeyPair(Key(BIP32_DERIVATION, PubA), Deriv1),
    KeyPair(Key(BIP32_DERIVATION, Fill(32, 170)), Deriv1),
    Plain(AMOUNT, writeUInt64LE(0)), Plain(AMOUNT, writeUInt64LE(5)),
    Plain(AMOUNT, Fill(7, 0)),
    KeyPair(Key(TAP_BIP32_DERIVATION, PubA), <<1>> \o Fill(LeafHashLen, 9) \o Deriv1),
    Plain(TAP_TREE, TwoLeaves),
    Plain(TAP_TREE, SubSeq(TwoLeaves, 1, Len(TwoLeaves) - 2)),
    Plain(TAP_TREE, <<1, 192, 253, 5>>),
    Plain(TAP_TREE, <<1>>),
    Plain(TAP_INTERNAL_KEY, Fill(TapInternalKeyLen, 3)),
    Prop(ASSET, Asset1),
    Prop(VALUE_COMMITMENT, Commit(1)),
    Prop(BLIND_VALUE_PROOF, <<>>), Prop(BLIND_VALUE_PROOF, <<9>>),
    Prop(BLINDER_INDEX, WriteLE(5, 4)),
    ForeignPair, UnnamedPair, Unknown1, Unknown2 }

BlindPairs ==
  { Prop(VALUE_COMMITMENT, Commit(1)), Prop(ASSET_COMMITMENT, Commit(2)),
    Prop(VALUE_RANGEPROOF, <<4, 4>>), Prop(ASSET_SURJECTION_PROOF, <<5>>),
    Prop(ECDH_PUBKEY, PubA),
    Prop(BLINDER_INDEX, WriteLE(0, 4)), Prop(BLINDER_INDEX, WriteLE(5, 4)),
    Prop(ASSET, Asset1), Plain(AMOUNT, writeUInt64LE(5)),
    Prop(BLIND_VALUE_PROOF, <<9>>), Prop(BLIND_ASSET_PROOF, <<10>>) }

-----------------------------------------------------------------------------
(* Decoding an arbitrary stream: the reader yields the next pair's bytes   *)

InitDecode ==
  /\ rec = NewPsetOutput
  /\ r = Reader(<<>>)
  /\ output = NewPsetOutput
  /\ kp = NoKeyPair
  /\ status = "reading"
  /\ err = ""
  /\ n = 0
  /\ seen = {}

ReadKeyPair ==
  /\ n < MaxPairs
  /\ \E p \in InputPairs : Iterate(Reader(KeyPairToBuffer(p)))

ReadBlindKeyPair ==
  /\ n < MaxBlindPairs
  /\ \E p \in BlindPairs : Iterate(Reader(KeyPairToBuffer(p)))

ReadTerminator ==
  /\ status = "reading"
  /\ Iterate(Reader(Terminator))

Init == InitDecode

Next == ReadKeyPair \/ ReadTerminator

Spec == Init /\ [][Next]_vars

NextBlind == ReadBlindKeyPair \/ ReadTerminator

SpecBlind == InitDecode /\ [][NextBlind]_vars

-----------------------------------------------------------------------------
(* Encoding a hand-built record and decoding the bytes                     *)

\* bounds of the hand-built records
MaxLeaves == 2
MaxDerivs == 2
MaxHashes == 1

DerivEntry(i) ==
  [pubkey |-> <<2>> \o Fill(PubkeyLen - 1, i),
   masterFingerprint |-> <<i, i, i, i>>, path |-> <<44, i>>]

TapDerivEntry(i, nHashes, hashLen) ==
  [pubkey |-> <<3>> \o Fill(PubkeyLen - 1, i),
   masterFingerprint |-> <<i, i, i, i>>, path |-> <<86, i>>,
   leafHashes |-> [j \in 1..nHashes |-> Fill(hashLen, 16 * i + j)]]

\* nDerivs = -1 leaves the list undefined, 0 makes it the empty array
Bip32List(nDerivs) ==
  IF nDerivs < 0 THEN None ELSE Some([i \in 1..nDerivs |-> DerivEntry(i)])

TapBip32List(nDerivs, nHashes, hashLen) ==
  IF nDerivs < 0 THEN None
  ELSE Some([i \in 1..nDerivs |-> TapDerivEntry(i, nHashes, hashLen)])

Blinding(o, blind) ==
  IF blind = "plain" THEN [o EXCEPT !.asset = Some(Asset1)]
  ELSE LET five == [o EXCEPT !.valueCommitment = Some(Commit(1)),
                             !.assetCommitment = Some(Commit(2)),
                             !.valueRangeproof = Some(<<4, 4>>),
                             !.assetSurjectionProof = Some(<<5>>),
                             !.ecdhPubkey = Some(PubA)]
       IN  IF blind = "commit" THEN five
           ELSE [five EXCEPT !.asset = Some(Asset1),
                             !.blindingPubkey = Some(PubA),
                             !.blindValueProof = Some(<<9>>),
                             !.blindAssetProof = Some(<<10>>)]

Extra(o, extra) ==
  IF extra = "unknowns" THEN [o EXCEPT !.unknowns = Some(<<Unknown1, Unknown2>>)]
  ELSE IF extra = "proprietary"
    THEN [o EXCEPT !.proprietaryData =
            Some(<<ProprietaryData(magicPrefix, 127, <<1>>, <<8>>)>>)]
  ELSE IF extra = "emptyRedeem"
    THEN [o EXCEPT !.redeemScript = Some(<<>>), !.witnessScript = Some(<<82>>)]
  ELSE IF extra = "taproot"
    THEN [o EXCEPT !.redeemScript = Some(<<81>>),
                   !.tapInternalKey = Some(Fill(TapInternalKeyLen, 3))]
  ELSE IF extra = "shortKey"
    THEN [o EXCEPT !.tapInternalKey = Some(Fill(TapInternalKeyLen - 1, 3))]
  ELSE o

Records ==
  { Extra(Blinding([NewPsetOutput EXCEPT
                      !.value = value,
                      !.script = script,
                      !.blinderIndex = blinderIndex,
                      !.tapTree = IF nLeaves < 0 THEN None
                                  ELSE Some([leaves |-> [i \in 1..nLeaves |-> Leaf(i)]]),
                      !.bip32Derivation = Bip32List(nDerivs),
                      !.tapBip32Derivation =
                        TapBip32List(nDerivs, nHashes,
                                     IF extra = "shortHash" THEN LeafHashLen - 4
                                     ELSE LeafHashLen)],
                   blind), extra) :
      value \in {0, 5}, script \in {None, Some(<<106>>)},
      blinderIndex \in {None, Some(0), Some(5)},
      nLeaves \in -1..MaxLeaves, nDerivs \in -1..MaxDerivs,
      nHashes \in 0..MaxHashes, blind \in {"plain", "commit", "full"},
      extra \in {"none", "unknowns", "proprietary", "emptyRedeem", "taproot",
                 "shortKey", "shortHash"} }

InitRoundTrip ==
  /\ rec \in Records
  /\ r = Reader(<<>>)
  /\ output = NewPsetOutput
  /\ kp = NoKeyPair
  /\ status = "built"
  /\ err = ""
  /\ n = 0
  /\ seen = {}

\* r = new BufferReader(rec.toBuffer() followed by the empty key)
ToBuffer ==
  /\ status = "built"
  /\ r' = Reader(toBuffer(rec) \o Terminator)
  /\ status' = "reading"
  /\ UNCHANGED <<rec, output, kp, err, n, seen>>

FromBuffer ==
  /\ status = "reading"
  /\ Iterate(r)

NextRoundTrip == ToBuffer \/ FromBuffer

SpecRoundTrip == InitRoundTrip /\ [][NextRoundTrip]_vars

-----------------------------------------------------------------------------
(* Decoding a stream, encoding the record returned and decoding the bytes  *)
(* again.  rec is the record handed to toBuffer; until then it is the      *)
(* fresh record of InitDecode, which no decode returns (sanityCheck        *)
(* rejects its empty asset).                                               *)

Reencoded == rec # NewPsetOutput

\* the stream read so far is made of pairs of BlindPairs only
BlindStream ==
  /\ seen \subseteq {FieldOf(p) : p \in BlindPairs}
  /\ Cardinality(seen) = n

\* the first decode: a stream over InputPairs, or a longer one over BlindPairs
ReadStreamPair ==
  /\ ~Reencoded
  /\ \/ ReadKeyPair
     \/ BlindStream /\ ReadBlindKeyPair

ReadStreamTerminator ==
  /\ ~Reencoded
  /\ ReadTerminator

\* R = output; r = new BufferReader(R.toBuffer() followed by the empty key);
\* fromBuffer starts again on r with a fresh record
Reencode ==
  /\ ~Reencoded
  /\ status = "returned"
  /\ rec' = output
  /\ r' = Reader(toBuffer(output) \o Terminator)
  /\ output' = NewPsetOutput
  /\ kp' = NoKeyPair
  /\ status' = "reading"
  /\ err' = ""
  /\ n' = 0
  /\ seen' = {}

DecodeAgain ==
  /\ Reencoded
  /\ FromBuffer

NextReencode ==
  ReadStreamPair \/ ReadStreamTerminator \/ Reencode \/ DecodeAgain

SpecReencode == InitDecode /\ [][NextReencode]_vars

-----------------------------------------------------------------------------
(* Properties                                                              *)

\* fromBuffer is over
Finished == status \in {"returned", "threw"}

\* the step read a key pair (kp' is the pair, output the record before it)
ReadsPair == n' = n + 1

Bytes(x) == IF x = None THEN <<>> ELSE x[1]

\* The named fields and ordered sub-lists of a record.  An unset field and
\* the default the encoder writes for it are the same here, as they are
\* everywhere in output.ts (`x && x.length > 0', `this.script ||
\* Buffer.alloc(0)', `this.blinderIndex! > 0'): an undefined byte field is the
\* empty Buffer, an undefined blinderIndex is 0, an undefined list is [].
NamedFields(o) ==
  [redeemScript |-> Bytes(o.redeemScript),
   witnessScript |-> Bytes(o.witnessScript),
   bip32Derivation |-> OrEmpty(o.bip32Derivation),
   value |-> o.value,
   script |-> Bytes(o.script),
   tapBip32Derivation |-> OrEmpty(o.tapBip32Derivation),
   tapTree |-> o.tapTree,
   tapInternalKey |-> Bytes(o.tapInternalKey),
   valueCommitment |-> Bytes(o.valueCommitment),
   asset |-> Bytes(o.asset),
   assetCommitment |-> Bytes(o.assetCommitment),
   valueRangeproof |-> Bytes(o.valueRangeproof),
   assetSurjectionProof |-> Bytes(o.assetSurjectionProof),
   blindingPubkey |-> Bytes(o.blindingPubkey),
   ecdhPubkey |-> Bytes(o.ecdhPubkey),
   blinderIndex |-> IF o.blinderIndex = None THEN 0 ELSE o.blinderIndex[1],
   blindValueProof |-> Bytes(o.blindValueProof),
   blindAssetProof |-> Bytes(o.blindAssetProof)]

\* a set fixed-size field of the record has another length than mandated
FixedSizeViolated(o) ==
  \/ IsSet(o.tapInternalKey) /\ Len(o.tapInternalKey[1]) # TapInternalKeyLen
  \/ IsSet(o.valueCommitment) /\ Len(o.valueCommitment[1]) # CommitmentLen
  \/ IsSet(o.assetCommitment) /\ Len(o.assetCommitment[1]) # CommitmentLen
  \/ IsSet(o.asset) /\ Len(o.asset[1]) # AssetLen
  \/ IsSet(o.blindingPubkey) /\ Len(o.blindingPubkey[1]) # PubkeyLen
  \/ IsSet(o.ecdhPubkey) /\ Len(o.ecdhPubkey[1]) # PubkeyLen
  \/ \E i \in 1..Len(OrEmpty(o.bip32Derivation)) :
       Len(o.bip32Derivation[1][i].pubkey) # PubkeyLen
  \/ \E i \in 1..Len(OrEmpty(o.tapBip32Derivation)) :
       LET d == o.tapBip32Derivation[1][i]
       IN  \/ Len(d.pubkey) # PubkeyLen
           \/ \E j \in 1..Len(d.leafHashes) : Len(d.leafHashes[j]) # LeafHashLen

UniquePubkeys(list) ==
  \A i, j \in 1..Len(list) : list[i].pubkey = list[j].pubkey => i = j

\* a well-formed record: fixed sizes respected, public keys unique within
\* each derivation list, proprietaryData holding no named confidential field
WellFormed(o) ==
  /\ ~FixedSizeViolated(o)
  /\ UniquePubkeys(OrEmpty(o.bip32Derivation))
  /\ UniquePubkeys(OrEmpty(o.tapBip32Derivation))
  /\ \A i \in 1..Len(OrEmpty(o.proprietaryData)) :
       o.proprietaryData[1][i].subType \notin NamedProprietaryTypes

(* C1: round trip.  For every well-formed record rec that passes            *)
(* sanityCheck, fromBuffer on rec.toBuffer() followed by the empty key      *)
(* returns, and the record it returns has the named fields and the ordered  *)
(* sub-lists (bip32 entries, taproot leaves, taproot derivations with their *)
(* leaf hashes) of rec.                                                     *)
C1_RoundTrip ==
  (Finished /\ WellFormed(rec) /\ sanityCheck(rec) = "")
     => (status = "returned" /\ NamedFields(output) = NamedFields(rec))

\* a fully blinded record with two leaves and two taproot derivations came back
C1_Witness ==
  /\ status = "returned"
  /\ WellFormed(rec)
  /\ isFullyBlinded(rec)
  /\ rec.tapTree = Some([leaves |-> <<Leaf(1), Leaf(2)>>])
  /\ Len(OrEmpty(rec.tapBip32Derivation)) = 2
  /\ Len(rec.tapBip32Derivation[1][2].leafHashes) = 1
  /\ output.tapTree = rec.tapTree
  /\ output.tapBip32Derivation = rec.tapBip32Derivation

\* the fields C2 speaks of: every named field but the amount
UniqueFields(field) == field # <<>> /\ field[1] # AMOUNT

(* C2: per-field uniqueness.  When the stream carries a named field (other  *)
(* than the amount) a second time, fromBuffer throws the duplicate-field    *)
(* error at that second pair, whatever the first value was.                 *)
C2_SecondOccurrenceThrows ==
  [][(ReadsPair /\ UniqueFields(FieldOf(kp')) /\ FieldOf(kp') \in seen)
       => (status' = "threw" /\ err' \in DuplicateErrors)]_vars

(* C3: duplicate AMOUNT.  A second AMOUNT pair with an 8-byte value, after  *)
(* a first one with any amount, makes fromBuffer throw the duplicate-field  *)
(* error naming "value".                                                    *)
C3_SecondAmountThrows ==
  [][(ReadsPair /\ kp'.key.keyType = AMOUNT /\ Len(kp'.value) = AmountLen
        /\ <<AMOUNT, -1, <<>>>> \in seen)
       => (status' = "threw" /\ err' = Duplicated("value"))]_vars

\* a PROPRIETARY pair that is none of the ten named confidential fields
Unrecognized(p) ==
  /\ p.key.keyType = PROPRIETARY
  /\ ProprietaryDataFromKeyPair(p).ok
  /\ FieldOf(p) = <<>>

(* C4: proprietary forward compatibility.  A PROPRIETARY pair whose         *)
(* identifier is not the magic prefix, or whose sub-type is not one of the  *)
(* ten named fields, is appended (identifier, sub-type, key suffix, value)  *)
(* to proprietaryData, never rejected and never dropped.                    *)
C4_UnrecognizedAppended ==
  [][(ReadsPair /\ Unrecognized(kp'))
       => /\ status' = "reading"
          /\ output' = [output EXCEPT !.proprietaryData =
                          Some(Append(OrEmpty(output.proprietaryData),
                                      ProprietaryDataFromKeyPair(kp').data))]]_vars

(* C5: unknown-field preservation.  A pair whose type code is not a         *)
(* recognized output field type raises no error and is appended as read     *)
(* (type, key data, value: the bytes of the stream) to the end of unknowns, *)
(* every other field of the record staying as it was.                       *)
C5_UnknownAppended ==
  [][(ReadsPair /\ kp'.key.keyType \notin OutputTypeCodes)
       => /\ status' = "reading"
          /\ err' = ""
          /\ KeyPairToBuffer(kp') = r'.buffer
          /\ output' = [output EXCEPT !.unknowns =
                          Some(Append(OrEmpty(output.unknowns), kp'))]]_vars

\* a stream with two unknown pairs decoded: both are kept, in stream order
C5_Witness ==
  /\ status = "returned"
  /\ output.unknowns = Some(<<Unknown2, Unknown1>>)
  /\ IsSet(output.asset)

\* the key/value sequence C6 states, written from the claim
ClaimedKeyPairs(o) ==
  LET opt(f, key) == IF IsSet(f) THEN <<KeyPair(key, f[1])>> ELSE <<>>
      pk(st) == Key(PROPRIETARY, ProprietaryKey(magicPrefix, st, <<>>))
      b32 == OrEmpty(o.bip32Derivation)
      t32 == OrEmpty(o.tapBip32Derivation)
      pd == OrEmpty(o.proprietaryData)
  IN  opt(o.redeemScript, Key(REDEEM_SCRIPT, <<>>))
      \o opt(o.witnessScript, Key(WITNESS_SCRIPT, <<>>))
      \o [i \in 1..Len(b32) |->
            KeyPair(Key(BIP32_DERIVATION, b32[i].pubkey),
                    b32[i].masterFingerprint \o EncodePath(b32[i].path))]
      \o [i \in 1..Len(t32) |->
            KeyPair(Key(TAP_BIP32_DERIVATION, t32[i].pubkey),
                    VaruintEncode(Len(t32[i].leafHashes))
                      \o Concat(t32[i].leafHashes)
                      \o t32[i].masterFingerprint \o EncodePath(t32[i].path))]
      \o (IF o.tapTree = None THEN <<>>
          ELSE <<KeyPair(Key(TAP_TREE, <<>>), TapTreeValue(o.tapTree[1].leaves))>>)
      \o opt(o.tapInternalKey, Key(TAP_INTERNAL_KEY, <<>>))
      \o <<KeyPair(Key(AMOUNT, <<>>), WriteLE(o.value, 8))>>
      \o <<KeyPair(Key(SCRIPT, <<>>), Bytes(o.script))>>
      \o opt(o.valueCommitment, pk(VALUE_COMMITMENT))
      \o opt(o.assetCommitment, pk(ASSET_COMMITMENT))
      \o opt(o.asset, pk(ASSET))
      \o opt(o.valueRangeproof, pk(VALUE_RANGEPROOF))
      \o opt(o.assetSurjectionProof, pk(ASSET_SURJECTION_PROOF))
      \o opt(o.blindingPubkey, pk(BLINDING_PUBKEY))
      \o opt(o.ecdhPubkey, pk(ECDH_PUBKEY))
      \o <<KeyPair(pk(BLINDER_INDEX),
                   WriteLE(IF o.blinderIndex = None THEN 0 ELSE o.blinderIndex[1], 4))>>
      \o opt(o.blindValueProof, pk(BLIND_VALUE_PROOF))
      \o opt(o.blindAssetProof, pk(BLIND_ASSET_PROOF))
      \o [i \in 1..Len(pd) |->
            KeyPair(Key(PROPRIETARY,
                        ProprietaryKey(magicPrefix, pd[i].subType, pd[i].keyData)),
                    pd[i].value)]
      \o OrEmpty(o.unknowns)

(* C6: encoder emission order.  The bytes toBuffer produces are the key     *)
(* pairs of the record in the stated order, the optional ones iff set, and  *)
(* every pair of unknowns after the proprietary-data entries.               *)
C6_EmissionOrder ==
  status # "built"
    => r.buffer =
         Concat([i \in 1..Len(ClaimedKeyPairs(rec)) |->
                   KeyPairToBuffer(ClaimedKeyPairs(rec)[i])]) \o Terminator

(* C7: fixed-size length enforcement.  When a fixed-size field is put on    *)
(* the wire with another length than mandated (33 for public keys and       *)
(* commitments, 32 for asset, tap internal key and each leaf hash),         *)
(* fromBuffer throws a length error and returns no record.                  *)
C7_WrongLengthThrows ==
  (Finished /\ FixedSizeViolated(rec) /\ UniquePubkeys(OrEmpty(rec.bip32Derivation))
     /\ UniquePubkeys(OrEmpty(rec.tapBip32Derivation)))
    => (status = "threw" /\ err \in LengthErrors)

FiveBlindingFields ==
  {"valueCommitment", "assetCommitment", "valueRangeproof",
   "assetSurjectionProof", "ecdhPubkey"}

FiveSet(o) == {f \in FiveBlindingFields : IsSet(o[f])}

(* C8: a returned record is in an allowed confidentiality state.  Every     *)
(* record fromBuffer returns passes sanityCheck, has none or all five of    *)
(* valueCommitment, assetCommitment, valueRangeproof, assetSurjectionProof, *)
(* ecdhPubkey set, has blinderIndex 0 (or unset) when all five are set, and *)
(* has a non-empty asset or a set assetCommitment.                          *)
C8_AllowedState ==
  status = "returned"
    => /\ sanityCheck(output) = ""
       /\ FiveSet(output) \in {{}, FiveBlindingFields}
       /\ FiveSet(output) = FiveBlindingFields
            => output.blinderIndex \in {None, Some(0)}
       /\ IsSet(output.asset) \/ IsSet(output.assetCommitment)

\* the fully blinded stream with blinderIndex 0 decodes
C8_Witness ==
  /\ status = "returned"
  /\ FiveSet(output) = FiveBlindingFields
  /\ output.blinderIndex = Some(0)

\* sanityCheck has run: fromBuffer returned or threw one of its messages
SanityErrors ==
  {ErrValuePairing, ErrMissingAsset, ErrAssetPairing, ErrPartiallyBlinded,
   ErrBlinderIndex}
Checked == status = "returned" \/ (status = "threw" /\ err \in SanityErrors)

(* C9: commitment/proof pairing, `present' meaning set and non-empty.  The  *)
(* value-pairing error is raised exactly when value is non-zero and         *)
(* valueCommitment and blindValueProof are not both present or both absent; *)
(* the asset-pairing error only when asset is non-empty and assetCommitment *)
(* and blindAssetProof are not both present or both absent.                 *)
C9_PairingRule ==
  Checked
    => /\ err = ErrValuePairing
            <=> (output.value > 0
                   /\ IsSet(output.valueCommitment) # IsSet(output.blindValueProof))
       /\ err = ErrAssetPairing
            => (IsSet(output.asset)
                  /\ IsSet(output.assetCommitment) # IsSet(output.blindAssetProof))

\* every leaf of a TAP_TREE value from offset on is whole: depth byte,
\* leaf-version byte, varint and the declared number of script bytes
RECURSIVE WholeLeaves(_, _)
WholeLeaves(value, offset) ==
  IF offset = Len(value) THEN TRUE
  ELSE LET scriptLen == VaruintDecode(value, offset + 2)
           end == offset + 2 + VaruintEncodingLength(scriptLen) + scriptLen
       IN  /\ offset + 2 < Len(value)
           /\ scriptLen # -1
           /\ end <= Len(value)
           /\ WholeLeaves(value, end)

(* C10: taproot tree truncation.  A TAP_TREE value whose final leaf is      *)
(* truncated (before the leaf-version byte, inside the varint, or before    *)
(* the declared number of script bytes) makes fromBuffer throw the          *)
(* malformed-buffer error; no record with a partial leaf is produced.       *)
C10_TruncatedLeafThrows ==
  [][(ReadsPair /\ kp'.key.keyType = TAP_TREE /\ output.tapTree = None
        /\ ~WholeLeaves(kp'.value, 0))
       => (status' = "threw" /\ err' = ErrMalformed)]_vars

(* C11: re-encode stability.  For every stream fromBuffer decodes into a    *)
(* record R (rec), fromBuffer on R.toBuffer() followed by the empty key     *)
(* raises no error and returns a record R' (output) with R'.toBuffer()      *)
(* byte-for-byte equal to R.toBuffer(); R still encodes to the bytes that   *)
(* were decoded.                                                            *)
C11_ReencodeStable ==
  Reencoded
    => /\ r.buffer = toBuffer(rec) \o Terminator
       /\ status # "threw"
       /\ status = "returned" => toBuffer(output) = toBuffer(rec)

\* a record holding unknown pairs was encoded and decoded again: the record
\* that came back is another one (the unknowns are gone) with the same bytes
C11_Witness ==
  /\ Reencoded
  /\ status = "returned"
  /\ rec.unknowns # None
  /\ output # rec
  /\ toBuffer(output) = toBuffer(rec)

====
